---- MODULE Spec2Model ----
(***************************************************************************)
(* Model of the ORE dashboard client: PDA derivation and account fetching  *)
(* (frontend/lib/accounts.ts), the Home page component that runs one fetch *)
(* sequence per mount, and the polling hook useRoundData that re-runs the  *)
(* same sequence on an interval (frontend/lib/solana.ts, Phase 4).         *)
(***************************************************************************)
EXTENDS Integers, Sequences, FiniteSets, TLC

\* null for objects, for the error state (string | null), and the message
\* of a thrown value that is no Error.
NULL == [null |-> TRUE]
NoError == "null"
UNDEFINED == "undefined"

(***************************************************************************)
(* Unsigned 64-bit values (bigint round ids).  A u64 is four 16-bit limbs, *)
(* least significant first, so that no intermediate value leaves the range *)
(* of the model checker's integers.                                        *)
(***************************************************************************)
Limb == 256 * 256

U64(a, b, c, d) == <<a, b, c, d>>

RECURSIVE Pow2(_)
Pow2(n) == IF n = 0 THEN 1 ELSE 2 * Pow2(n - 1)

\* Number of significant bits of a limb (0 for 0).
RECURSIVE BitLen(_)
BitLen(x) == IF x = 0 THEN 0 ELSE 1 + BitLen(x \div 2)

\* The eight bytes b0..b7 with v = sum b_i * 256^i.
LE8(v) ==
  << v[1] % 256, v[1] \div 256, v[2] % 256, v[2] \div 256,
     v[3] % 256, v[3] \div 256, v[4] % 256, v[4] \div 256 >>

\* v + 2^16k * inc for a single limb step, as five limbs (the fifth is the
\* carry out of bit 63).
AddAtLimb0(v, inc) ==
  LET s1 == v[1] + inc
      c1 == s1 \div Limb
      s2 == v[2] + c1
      c2 == s2 \div Limb
      s3 == v[3] + c2
      c3 == s3 \div Limb
      s4 == v[4] + c3
      c4 == s4 \div Limb
  IN  << s1 % Limb, s2 % Limb, s3 % Limb, s4 % Limb, c4 >>

\* Number(roundId): the IEEE-754 double nearest to the bigint (53-bit
\* significand, ties to even).  The result is an integer in 0..2^64, kept
\* as five limbs.  Values below 2^53 convert exactly.
ToNumber(v) ==
  IF v[4] < 32
    THEN << v[1], v[2], v[3], v[4], 0 >>
    ELSE LET s    == BitLen(v[4]) - 5
             m    == Pow2(s)
             r    == v[1] % m
             half == m \div 2
             down == << v[1] - r, v[2], v[3], v[4] >>
             up   == r > half \/ (r = half /\ (v[1] \div m) % 2 = 1)
         IN  IF up THEN AddAtLimb0(down, m)
                   ELSE << down[1], down[2], down[3], down[4], 0 >>

\* roundIdNum & 0xffffffff: ToInt32 of the number, i.e. its low 32 bits read
\* as a signed 32-bit integer.  Returned as [neg, lo16, hi16].
AndFFFFFFFF(n) ==
  [neg |-> n[2] >= 32768, lo16 |-> n[1], hi16 |-> n[2]]

\* Math.floor(roundIdNum / 0x100000000): exact for a double; the quotient
\* is in 0..2^32.  Returned as [over, lo16, hi16], over meaning 2^32.
FloorDiv2p32(n) ==
  [over |-> n[5] = 1, lo16 |-> n[3], hi16 |-> n[4]]

(***************************************************************************)
(* getRoundPDA / getBoardPDA.  findProgramAddressSync is collision free    *)
(* and deterministic; an address is represented by the seeds it is derived *)
(* from.  Buffer.writeUInt32LE throws a RangeError unless                  *)
(* 0 <= value <= 0xffffffff.                                               *)
(***************************************************************************)
BoardPDA == << "board" >>

RangeErrorWrite == [error |-> TRUE, message |-> "RangeError: value out of range"]

\* The 8-byte seed buffer: two writeUInt32LE calls on Number(roundId).
getRoundPDASeed(roundId) ==
  LET roundIdNum == ToNumber(roundId)
      low        == AndFFFFFFFF(roundIdNum)
      high       == FloorDiv2p32(roundIdNum)
  IN  IF low.neg THEN [ok |-> FALSE, thrown |-> RangeErrorWrite]
      ELSE IF high.over THEN [ok |-> FALSE, thrown |-> RangeErrorWrite]
      ELSE [ok |-> TRUE,
            seed |-> << low.lo16 % 256, low.lo16 \div 256,
                        low.hi16 % 256, low.hi16 \div 256,
                        high.lo16 % 256, high.lo16 \div 256,
                        high.hi16 % 256, high.hi16 \div 256 >>]

getRoundPDA(roundId) ==
  LET s == getRoundPDASeed(roundId)
  IN  IF s.ok THEN [ok |-> TRUE, seed |-> s.seed, address |-> << "round", s.seed >>]
              ELSE s

(***************************************************************************)
(* Thrown values: error says whether the value is an instance of Error.    *)
(***************************************************************************)
Err(msg) == [error |-> TRUE, message |-> msg]

BoardNotFound  == Err("Board account not found")
InvalidBoard   == Err("Invalid Board account data")
\* (the message ends with the round id asked for)
RoundNotFound  == Err("Round account not found for round")
InvalidRound   == Err("Invalid Round account data")
RangeErrorRead == Err("RangeError: offset out of range")

\* What connection.getAccountInfo can reject with: an Error carrying a
\* message, or a thrown value that is no Error.
Rejections == { Err("failed to get info about account"),
                [error |-> FALSE, message |-> UNDEFINED] }

(***************************************************************************)
(* Account layouts.  data.readBigUInt64LE(offset) throws a RangeError      *)
(* unless offset + 8 <= data.length; data.subarray never throws, it        *)
(* returns the bytes there are, and new PublicKey(bytes) accepts any byte  *)
(* array of at most 32 bytes.                                              *)
(***************************************************************************)
DISCRIMINATOR == 8

ReadOk(len, offset) == offset + 8 <= len

\* Number of bytes subarray(offset, offset + 32) returns.
SubarrayLen(len, offset) ==
  IF len <= offset THEN 0 ELSE IF len >= offset + 32 THEN 32 ELSE len - offset

\* All n consecutive u64 reads starting at offset succeed.
ReadArrayOk(len, offset, n) == \A i \in 0 .. (n - 1) : ReadOk(len, offset + 8 * i)

\* fetchBoard reading roundId at offset 16 instead of 8.
fetchBoard_WrongOffset(resp) ==
  IF resp.kind = "reject" THEN [ok |-> FALSE, thrown |-> resp.err]
  ELSE IF resp.kind = "null" THEN [ok |-> FALSE, thrown |-> BoardNotFound]
  ELSE IF resp.len < DISCRIMINATOR THEN [ok |-> FALSE, thrown |-> InvalidBoard]
  ELSE IF ~ReadOk(resp.len, 8) \/ ~ReadOk(resp.len, 16) \/ ~ReadOk(resp.len, 24)
    THEN [ok |-> FALSE, thrown |-> RangeErrorRead]
  ELSE [ok |-> TRUE,
        value |-> [roundId |-> resp.acct.startSlot,
                   startSlot |-> resp.acct.startSlot,
                   endSlot |-> resp.acct.endSlot]]

\* fetchBoard taking a missing account for a Board of zeros.
fetchBoard_MissingAsZeros(resp) ==
  IF resp.kind = "reject" THEN [ok |-> FALSE, thrown |-> resp.err]
  ELSE IF resp.kind = "null"
    THEN [ok |-> TRUE,
          value |-> [roundId |-> U64(0, 0, 0, 0),
                     startSlot |-> U64(0, 0, 0, 0),
                     endSlot |-> U64(0, 0, 0, 0)]]
  ELSE IF resp.len < DISCRIMINATOR THEN [ok |-> FALSE, thrown |-> InvalidBoard]
  ELSE IF ~ReadOk(resp.len, 8) \/ ~ReadOk(resp.len, 16) \/ ~ReadOk(resp.len, 24)
    THEN [ok |-> FALSE, thrown |-> RangeErrorRead]
  ELSE [ok |-> TRUE,
        value |-> [roundId |-> resp.acct.roundId,
                   startSlot |-> resp.acct.startSlot,
                   endSlot |-> resp.acct.endSlot]]

\* fetchBoard after the store has answered with resp.
fetchBoard(resp) ==
  IF resp.kind = "reject" THEN [ok |-> FALSE, thrown |-> resp.err]
  ELSE IF resp.kind = "null" THEN [ok |-> FALSE, thrown |-> BoardNotFound]
  ELSE IF resp.len < DISCRIMINATOR THEN [ok |-> FALSE, thrown |-> InvalidBoard]
  ELSE IF ~ReadOk(resp.len, 8) \/ ~ReadOk(resp.len, 16) \/ ~ReadOk(resp.len, 24)
    THEN [ok |-> FALSE, thrown |-> RangeErrorRead]
  ELSE [ok |-> TRUE,
        value |-> [roundId |-> resp.acct.roundId,
                   startSlot |-> resp.acct.startSlot,
                   endSlot |-> resp.acct.endSlot]]

\* fetchRound after the store has answered with resp: the decode of the
\* Round account (the request itself is issued by the caller's step).
fetchRoundDecode(resp) ==
  IF resp.kind = "reject" THEN [ok |-> FALSE, thrown |-> resp.err]
  ELSE IF resp.kind = "null" THEN [ok |-> FALSE, thrown |-> RoundNotFound]
  ELSE IF resp.len < DISCRIMINATOR THEN [ok |-> FALSE, thrown |-> InvalidRound]
  ELSE IF ~ReadOk(resp.len, 8) \/ ~ReadArrayOk(resp.len, 16, 25)
    THEN [ok |-> FALSE, thrown |-> RangeErrorRead]
  ELSE IF ~ReadArrayOk(resp.len, 248, 25) \/ ~ReadOk(resp.len, 448)
          \/ ~ReadOk(resp.len, 456)
    THEN [ok |-> FALSE, thrown |-> RangeErrorRead]
  ELSE IF SubarrayLen(resp.len, 464) > 32 \/ SubarrayLen(resp.len, 496) > 32
    THEN [ok |-> FALSE, thrown |-> Err("Invalid public key input")]
  ELSE IF ~ReadArrayOk(resp.len, 528, 4)
    THEN [ok |-> FALSE, thrown |-> RangeErrorRead]
  ELSE [ok |-> TRUE, value |-> resp.acct]

(***************************************************************************)
(* The same decoders byte by byte.  data is the account's byte sequence    *)
(* (data[i + 1] is the byte at offset i); offset is the value of the local *)
(* cursor when the function returns.                                       *)
(***************************************************************************)
\* data.readBigUInt64LE(offset) with the bytes taken most significant first.
readBigUInt64LE_BigEndian(data, offset) ==
  IF offset + 8 > Len(data)
    THEN [ok |-> FALSE, thrown |-> RangeErrorRead]
    ELSE [ok |-> TRUE,
          value |-> U64(data[offset + 8] + 256 * data[offset + 7],
                        data[offset + 6] + 256 * data[offset + 5],
                        data[offset + 4] + 256 * data[offset + 3],
                        data[offset + 2] + 256 * data[offset + 1])]

\* data.readBigUInt64LE(offset) reading past the end as zero bytes.
readBigUInt64LE_NoRangeCheck(data, offset) ==
  LET at(i) == IF i <= Len(data) THEN data[i] ELSE 0
  IN  [ok |-> TRUE,
       value |-> U64(at(offset + 1) + 256 * at(offset + 2),
                     at(offset + 3) + 256 * at(offset + 4),
                     at(offset + 5) + 256 * at(offset + 6),
                     at(offset + 7) + 256 * at(offset + 8))]

\* data.readBigUInt64LE(offset)
readBigUInt64LE(data, offset) ==
  IF offset + 8 > Len(data)
    THEN [ok |-> FALSE, thrown |-> RangeErrorRead]
    ELSE [ok |-> TRUE,
          value |-> U64(data[offset + 1] + 256 * data[offset + 2],
                        data[offset + 3] + 256 * data[offset + 4],
                        data[offset + 5] + 256 * data[offset + 6],
                        data[offset + 7] + 256 * data[offset + 8])]

\* data.subarray(start, end): the bytes there are in [start, end).
subarray(data, start, end) ==
  LET lo == IF start > Len(data) THEN Len(data) ELSE start
      hi == IF end > Len(data) THEN Len(data) ELSE end
  IN  SubSeq(data, lo + 1, hi)

\* new PublicKey(bytes).toString(): the bytes are read as a big-endian
\* number, which is written back as 32 bytes (zeros in front) and put in
\* base 58; the text stands for exactly those 32 bytes.
PublicKeyToString(bytes) ==
  IF Len(bytes) > 32
    THEN [ok |-> FALSE, thrown |-> Err("Invalid public key input")]
    ELSE [ok |-> TRUE,
          value |-> [base58 |-> [i \in 1 .. (32 - Len(bytes)) |-> 0] \o bytes]]

\* for (let i = 0; i < 25; i++) { a.push(data.readBigUInt64LE(offset)); offset += 8 }
\* The reads of the loop, in order.
ReadArray(data, offset, n) ==
  [i \in 1 .. n |-> readBigUInt64LE(data, offset + 8 * (i - 1))]

\* The first read of a list that threw, if any.
FirstThrown(reads) ==
  LET bad == { i \in 1 .. Len(reads) : ~reads[i].ok }
  IN  IF bad = {} THEN NULL
      ELSE reads[CHOOSE i \in bad : \A j \in bad : i <= j].thrown

Values(reads) == [i \in 1 .. Len(reads) |-> reads[i].value]

\* fetchBoard from `const data = accountInfo.data` on.
decodeBoard(data) ==
  IF Len(data) < DISCRIMINATOR THEN [ok |-> FALSE, thrown |-> InvalidBoard]
  ELSE LET reads == ReadArray(data, 8, 3)
       IN  IF FirstThrown(reads) # NULL
             THEN [ok |-> FALSE, thrown |-> FirstThrown(reads)]
             ELSE [ok |-> TRUE,
                   value |-> [roundId |-> reads[1].value,
                              startSlot |-> reads[2].value,
                              endSlot |-> reads[3].value],
                   offset |-> 8 + 3 * 8]

\* fetchRound from `const data = accountInfo.data` on.  Statements run in
\* source order, so the first one that throws decides the outcome.
decodeRound(data) ==
  IF Len(data) < DISCRIMINATOR THEN [ok |-> FALSE, thrown |-> InvalidRound]
  ELSE LET id        == readBigUInt64LE(data, 8)
           deployed  == ReadArray(data, 16, 25)
           slotHash  == subarray(data, 216, 216 + 32)
           count     == ReadArray(data, 248, 25)
           expiresAt == readBigUInt64LE(data, 448)
           motherlode == readBigUInt64LE(data, 456)
           rentPayer == PublicKeyToString(subarray(data, 464, 464 + 32))
           topMiner  == PublicKeyToString(subarray(data, 496, 496 + 32))
           totals    == ReadArray(data, 528, 4)
           before    == << id >> \o deployed \o count \o << expiresAt, motherlode >>
           steps     == before \o << rentPayer, topMiner >> \o totals
       IN  IF FirstThrown(steps) # NULL
             THEN [ok |-> FALSE, thrown |-> FirstThrown(steps)]
             ELSE [ok |-> TRUE,
                   value |-> [id |-> id.value,
                              deployed |-> Values(deployed),
                              slotHash |-> slotHash,
                              count |-> Values(count),
                              expiresAt |-> expiresAt.value,
                              motherlode |-> motherlode.value,
                              rentPayer |-> rentPayer.value,
                              topMiner |-> topMiner.value,
                              topMinerReward |-> totals[1].value,
                              totalDeployed |-> totals[2].value,
                              totalVaulted |-> totals[3].value,
                              totalWinnings |-> totals[4].value],
                   offset |-> 528 + 4 * 8]

\* catch (err) storing err.message without the instanceof test.
CatchMessage_NoInstanceOf(err) == err.message

\* catch (err) that logs the error and stores none.
CatchMessage_LogOnly(err) == NoError

\* catch (err): the message stored in the error state.
CatchMessage(err) == IF err.error THEN err.message ELSE "Unknown error"

(***************************************************************************)
(* Bounds and sample inputs.                                               *)
(***************************************************************************)
\* Fetch sequences that may be in flight at once in the model.
MaxInFlight == 2
\* Fetch sequences started in one behaviour.
MaxFetches == 2

Slots == 1 .. MaxInFlight

\* What is running: Home (one fetch sequence per mount), the polling hook
\* useRoundData, or getRoundPDA on its own.  Home's specification varies the
\* store's data; the hook's varies the schedule and draws fewer answers per
\* outcome.
VARIABLE component

\* Round ids the store may report: 7, 8, 2^31 (low 32 bits >= 2^31) and
\* 2^53 + 1 (no double has this value).
HomeRoundIds == { U64(7, 0, 0, 0), U64(8, 0, 0, 0), U64(0, 32768, 0, 0), U64(1, 0, 0, 32) }
PollRoundIds == { U64(7, 0, 0, 0), U64(0, 32768, 0, 0) }

HomeSlotWindows == { << U64(100, 0, 0, 0), U64(250, 0, 0, 0) >>,
                     << U64(250, 0, 0, 0), U64(400, 0, 0, 0) >> }
PollSlotWindows == { << U64(100, 0, 0, 0), U64(250, 0, 0, 0) >> }

\* Lengths of the data the store returns (32 and 560 are the full accounts).
HomeBoardLens == { 0, 8, 31, 32 }
PollBoardLens == { 31, 32 }
HomeRoundLens == { 0, 8, 470, 559, 560 }
PollRoundLens == { 559, 560 }

PollRejections == { Err("failed to get info about account") }

NullResponse == [kind |-> "null"]

\* The content of an account too short to decode plays no part: acct is
\* given only with a full-length account.  body stands for the eleven
\* fields of a Round account after id.
BoardResponsesOf(rejections, lens, ids, windows) ==
  { [kind |-> "reject", err |-> e] : e \in rejections } \cup { NullResponse }
    \cup { [kind |-> "data", len |-> n, acct |-> NULL] : n \in lens \ {32} }
    \cup { [kind |-> "data", len |-> 32,
            acct |-> [roundId |-> i, startSlot |-> w[1], endSlot |-> w[2]]] :
             i \in ids, w \in windows }

RoundResponsesOf(rejections, lens, ids) ==
  { [kind |-> "reject", err |-> e] : e \in rejections } \cup { NullResponse }
    \cup { [kind |-> "data", len |-> n, acct |-> NULL] : n \in lens \ {560} }
    \cup { [kind |-> "data", len |-> 560, acct |-> [id |-> i, body |-> "round-body"]] :
             i \in ids }

HomeBoardResponses == BoardResponsesOf(Rejections, HomeBoardLens, HomeRoundIds, HomeSlotWindows)
PollBoardResponses == BoardResponsesOf(PollRejections, PollBoardLens, PollRoundIds, PollSlotWindows)
HomeRoundResponses == RoundResponsesOf(Rejections, HomeRoundLens, HomeRoundIds)
PollRoundResponses == RoundResponsesOf(PollRejections, PollRoundLens, PollRoundIds)

BoardResponses == IF component = "Home" THEN HomeBoardResponses ELSE PollBoardResponses
RoundResponses == IF component = "Home" THEN HomeRoundResponses ELSE PollRoundResponses

\* Answers of a store that is up and holds well-formed accounts the client
\* can address: the Round account stored at the address asked for.
HealthyBoardResponse(r) ==
  r.kind = "data" /\ r.len = 32 /\ getRoundPDA(r.acct.roundId).ok

HealthyRoundResponse(r, address) ==
  /\ r.kind = "data" /\ r.len = 560
  /\ getRoundPDA(r.acct.id).ok
  /\ getRoundPDA(r.acct.id).address = address

\* Round ids given to getRoundPDA on its own.
PDARoundIds ==
  { U64(a, b, c, d) : a \in {0, 1, 2, 3, 65535}, b \in {0, 32767, 32768},
                      c \in {0, 65535}, d \in {0, 31, 32, 65535} }

(***************************************************************************)
(* State.                                                                  *)
(***************************************************************************)
VARIABLES
  board,       \* useState<Board | null>
  round,       \* useState<Round | null>
  loading,     \* useState(true)
  error,       \* useState<string | null>
  boardFrom,   \* history: fetch sequence whose setBoard wrote board
  roundFrom,   \* history: fetch sequence whose setRound wrote round
  mounted,     \* the component is mounted
  effectRan,   \* the useEffect body has run
  timer,       \* the setInterval handle is live
  healthy,     \* the store has recovered for good
  tasks,       \* the fetchData invocations in flight, one per slot; pre is
               \* the published pair and prev the outcome of the last ended
               \* sequence when the invocation started (history)
  last,        \* history: the fetch sequence that ended most recently
  started,     \* number of fetchData invocations so far
  idA, idB,    \* getRoundPDA inputs (pure-function check)
  pdaA, pdaB,  \* getRoundPDA results
  kind,        \* decoder applied: "Board" or "Round"
  record,      \* the account the bytes were written from
  data,        \* accountInfo.data given to the decoder
  decoded      \* what the decoder returned or threw

vars == << component, board, round, loading, error, boardFrom, roundFrom,
           mounted, effectRan, timer, healthy, tasks, last, started,
           idA, idB, pdaA, pdaB, kind, record, data, decoded >>

published == << board, round, error, loading >>
history   == << boardFrom, roundFrom >>
pdaVars   == << idA, idB, pdaA, pdaB >>
decodeVars == << kind, record, data, decoded >>
NoDecode == kind = "none" /\ record = NULL /\ data = << >> /\ decoded = NULL

IdleTask ==
  [pc |-> "idle", seq |-> 0, pre |-> << >>, prev |-> "none", boardResp |-> NULL,
   calls |-> << >>]

NoneEnded ==
  [outcome |-> "none", pre |-> << >>, prev |-> "none", boardResp |-> NULL,
   roundResp |-> NULL, raised |-> NULL, calls |-> << >>]

\* The record of sequence t ending with outcome.
Ended(t, outcome, boardResp, roundResp, raised) ==
  [outcome |-> outcome, pre |-> tasks[t].pre,
   prev |-> tasks[t].prev,
   boardResp |-> boardResp, roundResp |-> roundResp, raised |-> raised,
   calls |-> tasks[t].calls]

InFlight(t) == tasks[t].pc \in {"awaitBoard", "awaitRound"}
FreeSlots == { t \in Slots : ~InFlight(t) }
LowestFree == CHOOSE t \in FreeSlots : \A u \in FreeSlots : t <= u

InitComponent(c) ==
  /\ component = c
  /\ board = NULL /\ round = NULL /\ loading = TRUE /\ error = NoError
  /\ boardFrom = 0 /\ roundFrom = 0
  /\ mounted = TRUE /\ effectRan = FALSE /\ timer = FALSE /\ healthy = FALSE
  /\ tasks = [t \in Slots |-> IdleTask]
  /\ last = NoneEnded
  /\ started = 0
  /\ idA = << >> /\ idB = << >> /\ pdaA = NULL /\ pdaB = NULL
  /\ NoDecode

Init == InitComponent("Home")
InitPoll == InitComponent("useRoundData")

(***************************************************************************)
(* fetchData.  Between two awaits a step runs to completion.               *)
(***************************************************************************)
\* setError(null) at the top of Home's fetchData; the hook has none there.
ErrorOnStart(cur) == IF component = "Home" THEN NoError ELSE cur

\* setError(null) after setRound in the hook's fetchData; Home has none.
ErrorOnSuccess(cur) == IF component = "useRoundData" THEN NoError ELSE cur

\* fetchData(): setLoading(true), [setError(null)], then fetchBoard issues
\* connection.getAccountInfo(boardPDA) and the sequence awaits it.
fetchDataStart(t) ==
  /\ started < MaxFetches
  /\ ~InFlight(t)
  /\ loading' = TRUE
  /\ error' = ErrorOnStart(error)
  /\ started' = started + 1
  /\ tasks' = [tasks EXCEPT ![t] =
                 [pc |-> "awaitBoard", seq |-> started + 1, pre |-> << board, round >>,
                  prev |-> last.outcome, boardResp |-> NULL, calls |-> << BoardPDA >>]]
  /\ UNCHANGED << board, round, history, component, healthy, last, pdaVars, decodeVars >>

\* catch (err) { setError(...) } with setLoading(false) left to the success
\* path.
Caught_NoFinally(t, thrown, boardResp, roundResp) ==
  /\ error' = CatchMessage(thrown)
  /\ loading' = loading
  /\ last' = Ended(t, "failed", boardResp, roundResp, thrown)
  /\ tasks' = [tasks EXCEPT ![t] = IdleTask]

\* catch (err) { setError(...) } finally { setLoading(false) }
Caught(t, thrown, boardResp, roundResp) ==
  /\ error' = CatchMessage(thrown)
  /\ loading' = FALSE
  /\ last' = Ended(t, "failed", boardResp, roundResp, thrown)
  /\ tasks' = [tasks EXCEPT ![t] = IdleTask]

\* The Board request settles, the Round address being derived from
\* boardData.startSlot.
BoardReturns_FromStartSlot(t, resp) ==
  /\ tasks[t].pc = "awaitBoard"
  /\ healthy => HealthyBoardResponse(resp)
  /\ LET b == fetchBoard(resp)
     IN  IF ~b.ok
           THEN /\ Caught(t, b.thrown, resp, NULL)
                /\ UNCHANGED << board, boardFrom >>
           ELSE LET pda == getRoundPDA(b.value.startSlot)
                IN  /\ board' = b.value
                    /\ boardFrom' = tasks[t].seq
                    /\ IF ~pda.ok
                         THEN Caught(t, pda.thrown, resp, NULL)
                         ELSE /\ tasks' = [tasks EXCEPT ![t].pc = "awaitRound",
                                             ![t].boardResp = resp,
                                             ![t].calls = Append(@, pda.address)]
                              /\ UNCHANGED << error, loading, last >>
  /\ UNCHANGED << round, roundFrom, component, mounted, effectRan, timer,
                  healthy, started, pdaVars, decodeVars >>

\* The Board request settles.  On success setBoard(boardData) runs, then
\* getRoundPDA(boardData.roundId) (in Home's log line and in fetchRound),
\* then the Round request is issued.
BoardReturns(t, resp) ==
  /\ tasks[t].pc = "awaitBoard"
  /\ healthy => HealthyBoardResponse(resp)
  /\ LET b == fetchBoard(resp)
     IN  IF ~b.ok
           THEN /\ Caught(t, b.thrown, resp, NULL)
                /\ UNCHANGED << board, boardFrom >>
           ELSE LET pda == getRoundPDA(b.value.roundId)
                IN  /\ board' = b.value
                    /\ boardFrom' = tasks[t].seq
                    /\ IF ~pda.ok
                         THEN Caught(t, pda.thrown, resp, NULL)
                         ELSE /\ tasks' = [tasks EXCEPT ![t].pc = "awaitRound",
                                             ![t].boardResp = resp,
                                             ![t].calls = Append(@, pda.address)]
                              /\ UNCHANGED << error, loading, last >>
  /\ UNCHANGED << round, roundFrom, component, mounted, effectRan, timer,
                  healthy, started, pdaVars, decodeVars >>

\* The Round request settles.  On success setRound(roundData),
\* [setError(null)], and in every case setLoading(false).
RoundReturns(t, resp) ==
  /\ tasks[t].pc = "awaitRound"
  /\ healthy => HealthyRoundResponse(resp, tasks[t].calls[2])
  /\ LET r == fetchRoundDecode(resp)
     IN  IF ~r.ok
           THEN /\ Caught(t, r.thrown, tasks[t].boardResp, resp)
                /\ UNCHANGED << round, roundFrom >>
           ELSE /\ round' = r.value
                /\ roundFrom' = tasks[t].seq
                /\ error' = ErrorOnSuccess(error)
                /\ loading' = FALSE
                /\ last' = Ended(t, "ready", tasks[t].boardResp, resp, NULL)
                /\ tasks' = [tasks EXCEPT ![t] = IdleTask]
  /\ UNCHANGED << board, boardFrom, component, mounted, effectRan, timer,
                  healthy, started, pdaVars, decodeVars >>

(***************************************************************************)
(* The components' effects.                                                *)
(***************************************************************************)
\* useEffect(() => { ...; fetchData(); [setInterval(fetchData, 2000)] }, [])
Mount ==
  /\ mounted /\ ~effectRan
  /\ effectRan' = TRUE
  /\ timer' = (component = "useRoundData")
  /\ fetchDataStart(1)
  /\ UNCHANGED mounted

\* An interval callback that gives up once an error is recorded.
Tick_StopsOnError ==
  /\ timer
  /\ error = NoError
  /\ FreeSlots # {}
  /\ fetchDataStart(LowestFree)
  /\ UNCHANGED << mounted, effectRan, timer >>

\* The interval fires: fetchData() is called, whatever is in flight.
Tick ==
  /\ timer
  /\ FreeSlots # {}
  /\ fetchDataStart(LowestFree)
  /\ UNCHANGED << mounted, effectRan, timer >>

\* The component unmounts and the effect's cleanup runs: clearInterval in
\* the hook, nothing in Home.  Nothing cancels a fetchData in flight.
Unmount ==
  /\ mounted /\ effectRan
  /\ mounted' = FALSE
  /\ timer' = FALSE
  /\ UNCHANGED << published, history, component, effectRan, healthy, tasks,
                  last, started, pdaVars, decodeVars >>

\* The store recovers and stays up.
Heal ==
  /\ ~healthy
  /\ healthy' = TRUE
  /\ UNCHANGED << published, history, component, mounted, effectRan, timer,
                  tasks, last, started, pdaVars, decodeVars >>

BoardSettles == \E t \in Slots : \E resp \in BoardResponses : BoardReturns(t, resp)
RoundSettles == \E t \in Slots : \E resp \in RoundResponses : RoundReturns(t, resp)

Next == Mount \/ BoardSettles \/ RoundSettles \/ Unmount

NextPoll == Mount \/ Tick \/ BoardSettles \/ RoundSettles \/ Unmount \/ Heal

Spec == Init /\ [][Next]_vars

SpecPoll == InitPoll /\ [][NextPoll]_vars

\* Home with every store call eventually returning or rejecting.
LiveHome ==
  /\ Spec
  /\ \A t \in Slots :
       WF_vars(\/ \E resp \in BoardResponses : BoardReturns(t, resp)
               \/ \E resp \in RoundResponses : RoundReturns(t, resp))

\* setInterval keeps firing while the handle is live, and every store call
\* eventually returns or rejects.
LivePoll ==
  /\ SpecPoll
  /\ WF_vars(Tick)
  /\ \A t \in Slots :
       WF_vars(\/ \E resp \in BoardResponses : BoardReturns(t, resp)
               \/ \E resp \in RoundResponses : RoundReturns(t, resp))

(***************************************************************************)
(* getRoundPDA on its own: two round ids are drawn and each is derived.    *)
(***************************************************************************)
InitPDA ==
  /\ component = "getRoundPDA"
  /\ board = NULL /\ round = NULL /\ loading = TRUE /\ error = NoError
  /\ boardFrom = 0 /\ roundFrom = 0
  /\ mounted = FALSE /\ effectRan = FALSE /\ timer = FALSE /\ healthy = FALSE
  /\ tasks = [t \in Slots |-> IdleTask]
  /\ last = NoneEnded
  /\ started = 0
  /\ idA \in PDARoundIds /\ idB \in PDARoundIds
  /\ pdaA = NULL /\ pdaB = NULL
  /\ NoDecode

Derive ==
  /\ pdaA = NULL
  /\ pdaA' = getRoundPDA(idA)
  /\ pdaB' = getRoundPDA(idB)
  /\ UNCHANGED << published, history, component, mounted, effectRan, timer,
                  healthy, tasks, last, started, idA, idB, decodeVars >>

SpecPDA == InitPDA /\ [][Derive]_vars

(***************************************************************************)
(* The decoders on their own: an account is written out field by field in  *)
(* the declared order, cut or extended to a length, and decoded.           *)
(***************************************************************************)
DecodePatterns == 1 .. 3

\* The k-th 64-bit value and the c-th 32-byte block of pattern p.
SampleU64(p, k) ==
  U64((k * 257 * p + p) % Limb, (k * 7 + p) % Limb,
      (k * 31 + 3 * p) % Limb, (k * p + 1000 * p) % Limb)

SampleBlock(p, c) == [i \in 1 .. 32 |-> (i * p + c) % 256]

SampleTag(p) == [i \in 1 .. 8 |-> (17 * p + i) % 256]

SampleBoard(p) ==
  [roundId |-> SampleU64(p, 1), startSlot |-> SampleU64(p, 2), endSlot |-> SampleU64(p, 3)]

SampleRound(p) ==
  [id |-> SampleU64(p, 1),
   deployed |-> [i \in 1 .. 25 |-> SampleU64(p, 1 + i)],
   slotHash |-> SampleBlock(p, 11),
   count |-> [i \in 1 .. 25 |-> SampleU64(p, 26 + i)],
   expiresAt |-> SampleU64(p, 52),
   motherlode |-> SampleU64(p, 53),
   rentPayer |-> [base58 |-> SampleBlock(p, 101)],
   topMiner |-> [base58 |-> SampleBlock(p, 201)],
   topMinerReward |-> SampleU64(p, 54),
   totalDeployed |-> SampleU64(p, 55),
   totalVaulted |-> SampleU64(p, 56),
   totalWinnings |-> SampleU64(p, 57)]

\* The values of a list as 8 bytes each, least significant byte first.
EncodeU64s(values) ==
  [i \in 1 .. (8 * Len(values)) |-> LE8(values[((i - 1) \div 8) + 1])[((i - 1) % 8) + 1]]

\* The accounts as the program that owns them lays them out: the tag, then
\* the fields in declared order with nothing in between.
EncodeBoard(tag, rec) ==
  tag \o EncodeU64s(<< rec.roundId, rec.startSlot, rec.endSlot >>)

EncodeRound(tag, rec) ==
  tag \o EncodeU64s(<< rec.id >>) \o EncodeU64s(rec.deployed) \o rec.slotHash
      \o EncodeU64s(rec.count) \o EncodeU64s(<< rec.expiresAt, rec.motherlode >>)
      \o rec.rentPayer.base58 \o rec.topMiner.base58
      \o EncodeU64s(<< rec.topMinerReward, rec.totalDeployed,
                       rec.totalVaulted, rec.totalWinnings >>)

\* bytes cut to n bytes, or followed by further bytes up to n.
Fit(bytes, n, p) ==
  [i \in 1 .. n |-> IF i <= Len(bytes) THEN bytes[i] ELSE (i * p + 5) % 256]

\* Lengths of the data decoded: every length up to 40 for a Board account;
\* for a Round account the lengths around each field boundary, inside the
\* three 32-byte fields, and up to 617.
DecodeBoardLens == 0 .. 40
DecodeRoundLens ==
  { 0, 1, 7, 8, 15, 16, 215, 216, 230, 247, 248, 249, 447, 448, 455, 456, 463,
    464, 470, 495, 496, 500, 527, 528, 535, 536, 551, 552, 559, 560, 561, 615,
    616, 617 }

decode(k, bytes) == IF k = "Board" THEN decodeBoard(bytes) ELSE decodeRound(bytes)

InitDecode ==
  /\ component = "decode"
  /\ board = NULL /\ round = NULL /\ loading = TRUE /\ error = NoError
  /\ boardFrom = 0 /\ roundFrom = 0
  /\ mounted = FALSE /\ effectRan = FALSE /\ timer = FALSE /\ healthy = FALSE
  /\ tasks = [t \in Slots |-> IdleTask]
  /\ last = NoneEnded
  /\ started = 0
  /\ idA = << >> /\ idB = << >> /\ pdaA = NULL /\ pdaB = NULL
  /\ kind \in {"Board", "Round"}
  /\ \E p \in DecodePatterns :
       \/ /\ kind = "Board"
          /\ record = SampleBoard(p)
          /\ \E n \in DecodeBoardLens :
               data = Fit(EncodeBoard(SampleTag(p), SampleBoard(p)), n, p)
       \/ /\ kind = "Round"
          /\ record = SampleRound(p)
          /\ \E n \in DecodeRoundLens :
               data = Fit(EncodeRound(SampleTag(p), SampleRound(p)), n, p)
  /\ decoded = NULL

Decode ==
  /\ decoded = NULL
  /\ kind \in {"Board", "Round"}
  /\ decoded' = decode(kind, data)
  /\ UNCHANGED << published, history, component, mounted, effectRan, timer,
                  healthy, tasks, last, started, pdaVars, kind, record, data >>

SpecDecode == InitDecode /\ [][Decode]_vars

(***************************************************************************)
(* Properties.                                                             *)
(***************************************************************************)
Seven == U64(7, 0, 0, 0)

\* What the page renders from the four state values: the spinner, the error
\* page, 'No data available', or the dashboard with board and round.  The
\* branches are tried in this order and each returns alone; `if (error)` takes
\* null and the empty string for no error.
View ==
  IF loading THEN "loading"
  ELSE IF error \notin {NoError, ""} THEN "error"
  ELSE IF board = NULL \/ round = NULL THEN "no-data"
  ELSE "dashboard"

Ready  == ~loading /\ error = NoError /\ board # NULL /\ round # NULL
Failed == ~loading /\ error # NoError

\* C1: when a fetch sequence fails at the child step (the parent step having
\* succeeded), the published board and round are what they were when the
\* sequence started.
C1_FailureKeepsSnapshot ==
  (last.outcome = "failed" /\ last.roundResp # NULL) => << board, round >> = last.pre

\* C2: the published pair is absent, or board and round were both written
\* by one and the same fetch sequence.
C2_PairFromOneSequence ==
  \/ board = NULL /\ round = NULL
  \/ board # NULL /\ round # NULL /\ boardFrom = roundFrom

\* C3: whenever board and round are both published, round.id equals
\* board.roundId.
C3_RoundIdMatchesBoard ==
  (board # NULL /\ round # NULL) => round.id = board.roundId

\* C4: at most one fetch sequence is in flight at any time.
C4_AtMostOneInFlight == Cardinality({ t \in Slots : InFlight(t) }) <= 1

\* C5: once the component is torn down, board, round, error and loading are
\* never written again.
C5_NoWriteAfterTeardown == [][~mounted => UNCHANGED published]_vars

C7_SuccessPublishesPair ==
  last.outcome = "ready" =>
    /\ board = [roundId |-> last.boardResp.acct.roundId,
                startSlot |-> last.boardResp.acct.startSlot,
                endSlot |-> last.boardResp.acct.endSlot]
    /\ round = last.roundResp.acct
    /\ error = NoError

\* Parent(roundId = 7) then Child(id = 7) has been published.
C7_Witness ==
  /\ last.outcome = "ready"
  /\ board # NULL /\ board.roundId = Seven
  /\ round # NULL /\ round.id = Seven
  /\ error = NoError

\* C8: the step that ends a sequence in which something was thrown ends it
\* as failed, with a non-empty error state and loading off; a sequence
\* that ends ready threw nothing.
C8_FailureRecorded ==
  [][\A t \in Slots :
       (InFlight(t) /\ ~InFlight(t)') =>
         /\ last'.outcome \in {"failed", "ready"}
         /\ last'.outcome = "failed" =>
              (last'.raised # NULL /\ error' \notin {NoError, UNDEFINED, ""} /\ ~loading')
         /\ last'.outcome = "ready" => last'.raised = NULL]_vars

\* A sequence has failed on the address derivation (getRoundPDA threw) and
\* the thrown message is in the error state.
C8_Witness ==
  /\ last.outcome = "failed"
  /\ last.raised = RangeErrorWrite
  /\ error = "RangeError: value out of range"
  /\ ~loading

\* C9: getRoundPDA succeeds for every u64 round id and its seed is the
\* id's eight bytes, least significant first.
C9_SeedIsLittleEndianU64 ==
  pdaA # NULL => (pdaA.ok /\ pdaA.seed = LE8(idA))

\* C10: two distinct round ids for which getRoundPDA returns are given
\* different seed bytes.
C10_DistinctIdsDistinctSeeds ==
  (pdaA # NULL /\ idA # idB /\ pdaA.ok /\ pdaB.ok) => pdaA.seed # pdaB.seed

\* Length of the accounts as the encoder writes them.
BoardLength == Len(EncodeBoard(SampleTag(1), SampleBoard(1)))
RoundLength == Len(EncodeRound(SampleTag(1), SampleRound(1)))

\* Length a Round account is stated to have: 8-byte tag + 608-byte body.
StatedRoundLength == 8 + 608

\* C11 as stated: a buffer of the declared length (32 bytes for a Board,
\* 616 for a Round) decodes to the fields the encoder wrote, and the decoder
\* consumes exactly that many bytes.
C11_RoundTrip_616 ==
  (decoded # NULL
     /\ Len(data) = (IF kind = "Board" THEN 8 + 24 ELSE StatedRoundLength)) =>
    /\ decoded.ok
    /\ decoded.value = record
    /\ decoded.offset = Len(data)

\* C11 amended: a buffer of 32 bytes (Board) or 560 bytes (Round: 8-byte tag
\* + 552-byte body, the four amounts at 528..560) decodes to the fields the
\* encoder wrote in declared order without padding, and the decoder
\* consumes exactly 32 and 560 bytes.
C11_RoundTrip ==
  (decoded # NULL
     /\ Len(data) = (IF kind = "Board" THEN 8 + 24 ELSE 8 + 552)) =>
    /\ decoded.ok
    /\ decoded.value = record
    /\ decoded.offset = Len(data)
    /\ Len(data) = (IF kind = "Board" THEN BoardLength ELSE RoundLength)

\* A 560-byte Round account has been decoded to the record it was written
\* from.
C11_Witness ==
  /\ kind = "Round" /\ Len(data) = 560
  /\ decoded # NULL /\ decoded.ok /\ decoded.value = record
  /\ decoded.value.totalWinnings = SampleRound(2).totalWinnings

C13_EmptyDistinctFromShort ==
  decoded # NULL =>
    /\ Len(data) = 0 => ~decoded.ok
    /\ (Len(data) > 0 /\ ~decoded.ok) => decoded.thrown # decode(kind, << >>).thrown

\* The store calls of a fetch sequence, given the parent's answer: the
\* Board address alone until the parent has returned and been decoded, and
\* after that the Round address of the decoded parent's roundId.
ParentRoundPDA(boardResp) == getRoundPDA(fetchBoard(boardResp).value.roundId)

CallsAfterParent(boardResp) == << BoardPDA, ParentRoundPDA(boardResp).address >>

\* C14: a fetch sequence that awaits the parent has made the parent call
\* only; a child call was made only with a parent answer that decoded, and
\* its address is the one derived from that parent's roundId.
C14_ChildAfterParent ==
  /\ \A t \in Slots :
       /\ tasks[t].pc = "awaitBoard" =>
            (tasks[t].calls = << BoardPDA >> /\ tasks[t].boardResp = NULL)
       /\ tasks[t].pc = "awaitRound" =>
            /\ tasks[t].boardResp # NULL
            /\ fetchBoard(tasks[t].boardResp).ok
            /\ ParentRoundPDA(tasks[t].boardResp).ok
            /\ tasks[t].calls = CallsAfterParent(tasks[t].boardResp)
  /\ Len(last.calls) <= 2
  /\ Len(last.calls) = 2 =>
       /\ last.boardResp # NULL
       /\ fetchBoard(last.boardResp).ok
       /\ ParentRoundPDA(last.boardResp).ok
       /\ last.calls = CallsAfterParent(last.boardResp)

\* The child call for round 7 is out, after a parent with roundId 7.
C14_Witness ==
  \E t \in Slots :
    /\ tasks[t].pc = "awaitRound"
    /\ tasks[t].boardResp.acct.roundId = Seven
    /\ tasks[t].calls = << BoardPDA, << "round", LE8(Seven) >> >>

\* C15: no fetch sequence goes on after the store has answered that the
\* Board account is missing, and the step in which a sequence ends on a
\* missing Board or Round account ends it as failed, with the 'not found'
\* message in error and no store call beyond the one that was answered.
C15_NotFoundEndsSequence ==
  [][/\ \A t \in Slots : tasks'[t].boardResp # NullResponse
     /\ \A t \in Slots :
          (InFlight(t) /\ ~InFlight(t)') =>
            /\ last'.boardResp = NullResponse =>
                 /\ last'.outcome = "failed"
                 /\ error' = BoardNotFound.message
                 /\ last'.calls = << BoardPDA >>
            /\ last'.roundResp = NullResponse =>
                 /\ last'.outcome = "failed"
                 /\ error' = RoundNotFound.message
                 /\ Len(last'.calls) = 2
                 /\ last'.calls[1] = BoardPDA
                 /\ last'.calls[2] # BoardPDA]_vars

\* A sequence has ended on a missing Round account.
C15_Witness ==
  /\ last.outcome = "failed"
  /\ last.roundResp = NullResponse
  /\ error = "Round account not found for round"
  /\ Len(last.calls) = 2
  /\ ~loading

\* C16: whenever board and round are both published, the page renders the
\* dashboard with them, whatever loading and error are.
C16_SnapshotStaysVisible ==
  (board # NULL /\ round # NULL) => View = "dashboard"

\* C17: whenever loading is off and error is empty, board and round are both
\* present, so the page never renders 'No data available'.
C17_NoDataUnreachable ==
  /\ (~loading /\ error \in {NoError, ""}) => (board # NULL /\ round # NULL)
  /\ View # "no-data"

\* The dashboard is rendered from a board and a round that two overlapping
\* fetch sequences wrote.
C17_Witness ==
  /\ View = "dashboard"
  /\ ~loading /\ error = NoError
  /\ boardFrom # roundFrom

\* C18: loading is on for as long as a fetch sequence is in flight, the step
\* that ends a sequence, ready or failed, turns it off, and every sequence
\* in flight comes to its end with loading off.
C18_LoadingEnds ==
  /\ [](\A t \in Slots : InFlight(t) => loading)
  /\ [][\A t \in Slots : (InFlight(t) /\ ~InFlight(t)') => ~loading']_vars
  /\ \A t \in Slots : InFlight(t) ~> (~InFlight(t) /\ ~loading)

\* A sequence whose Board request was rejected has ended, and the page has
\* left the spinner for the error page.
C18_Witness ==
  /\ last.outcome = "failed"
  /\ last.boardResp # NULL /\ last.boardResp.kind = "reject"
  /\ \A t \in Slots : ~InFlight(t)
  /\ ~loading
  /\ View = "error"
====
